---- MODULE Spec2Model ----
(***************************************************************************)
(* A model of the ngpt / tOAI chat clients: one call of chat() against an  *)
(* OpenAI-compatible endpoint, in streaming and non-streaming mode, and    *)
(* the command-line modes of ngpt that issue such calls; shell mode of     *)
(* both programs; and the configuration file of ngpt with the operations   *)
(* that read and change it.                                                *)
(*                                                                         *)
(* Response text is a sequence of one-character strings; configuration     *)
(* values, arguments and typed answers are strings.  A response line is a  *)
(* record that says what the bytes of the line are (empty, not UTF-8, or   *)
(* text), what the text starts with, what the payload after the prefix is, *)
(* and, when the payload is a JSON document, the JSON type found at each   *)
(* place the decoder looks at.                                             *)
(***************************************************************************)
EXTENDS Integers, Sequences, FiniteSets, TLC

VARIABLES
    impl,        \* which client runs: "ngpt" (NGPTClient) or "tOAI" (TOAIClient)
    apiKey,      \* self.api_key is non-empty
    stream,      \* the stream argument of chat()
    webSearch,   \* the web_search argument of chat()
    maxTokens,   \* the max_tokens argument of chat(): "None" or "int"
    kwargs,      \* the keys of **kwargs of chat()
    status,      \* what the transport will answer to the POST
    body,        \* the lines response.iter_lines() will deliver
    doc,         \* the document response.json() will deliver
    pc,          \* position of the call of chat()
    payload,     \* the keys of the request body that was built
    overwritten, \* the keys of the request body that kwargs replaced
    requests,    \* number of HTTP requests issued
    pos,         \* number of lines read from response.iter_lines()
    collected,   \* collected_content
    pending,     \* the fragment printed and not yet appended
    display,     \* the fragments echoed to the terminal, concatenated
    messages,    \* the notices printed to the terminal by chat()
    result,      \* the value chat() returned
    how,         \* the exit path of chat()
    exc,         \* the exception chat() caught or let escape, "" when none
    mode,        \* the mode of the ngpt program, "direct" for a library call
    prettify,    \* args.prettify
    noStream,    \* args.no_stream
    hasRenderer, \* a markdown renderer is installed
    cpc,         \* position of main(): "none" for a library call
    turns,       \* number of exchanges of the interactive session so far
    answer,      \* what the user typed at the shell confirmation
    executed,    \* the generated command was handed to subprocess.run
    shown,       \* how main() showed the response: "", "plain" or "pretty"
    exitCode,    \* the exit status of the program, -1 while it runs
    file,        \* the configuration file: its kind and the profiles it holds
    env,         \* OPENAI_API_KEY, OPENAI_BASE_URL, OPENAI_MODEL of the process
    call,        \* the configuration operation that ran last and its arguments
    before,      \* the profiles load_configs gave when that operation began
    ret,         \* what that operation returned, or how it ended
    loaded,      \* the profile load_config returned and the index it selected
    client       \* the fields of the client main() constructed

vars == <<impl, apiKey, stream, webSearch, maxTokens, kwargs, status, body, doc,
          pc, payload, overwritten, requests, pos, collected, pending,
          display, messages, result, how, exc,
          mode, prettify, noStream, hasRenderer, cpc, turns, answer, executed, shown,
          exitCode, file, env, call, before, ret, loaded, client>>

cfgVars == <<file, env, call, before, ret, loaded, client>>

cliVars == <<mode, prettify, noStream, hasRenderer, cpc, turns, answer, executed, shown, exitCode>>

inputVars == <<impl, apiKey, stream, webSearch, maxTokens, kwargs, status, body, doc>>

----------------------------------------------------------------------------
(* Bounds *)

MaxLines == 3

\* lines of a response in the runs of the whole program
CliMaxLines == 2

\* exchanges of one interactive session
MaxTurns == 2

----------------------------------------------------------------------------
(* Response lines *)

NoFrame == [chunk |-> "none", choices |-> "absent", first |-> "none",
            delta |-> "absent", ctype |-> "absent", ctext |-> <<>>]

Frame(ch, fi, de, ct, cx) ==
    [chunk |-> "obj", choices |-> ch, first |-> fi,
     delta |-> de, ctype |-> ct, ctext |-> cx]

ContentFrame(c) == Frame("list", "obj", "obj", "str", c)

DataLine(p, f) ==
    [raw |-> "text", head |-> "data: ", payload |-> p, frame |-> f]

BlankLine    == [raw |-> "blank", head |-> "", payload |-> "", frame |-> NoFrame]
BadUtf8Line  == [raw |-> "undecodable", head |-> "", payload |-> "undecodable",
                 frame |-> NoFrame]
NoSpaceLine  == [raw |-> "text", head |-> "data:", payload |-> "json",
                 frame |-> ContentFrame(<<"A">>)]
DoneLine     == DataLine("[DONE]", NoFrame)
BadJsonLine  == DataLine("{not json", NoFrame)
FrameA       == DataLine("json", ContentFrame(<<"A">>))
FrameB       == DataLine("json", ContentFrame(<<"B">>))
EmptyContent == DataLine("json", ContentFrame(<<>>))
NoChoices    == DataLine("json", Frame("absent", "none", "absent", "absent", <<>>))
EmptyChoices == DataLine("json", Frame("list0", "none", "absent", "absent", <<>>))
NoDelta      == DataLine("json", Frame("list", "obj", "absent", "absent", <<>>))
NoContent    == DataLine("json", Frame("list", "obj", "obj", "absent", <<>>))
NumberChunk  == DataLine("json", [NoFrame EXCEPT !.chunk = "num"])
NumberContent == DataLine("json", Frame("list", "obj", "obj", "num", <<"5">>))

Lines == {BlankLine, BadUtf8Line, NoSpaceLine, DoneLine, BadJsonLine, FrameA,
          FrameB, EmptyContent, NoChoices, EmptyChoices, NoDelta, NoContent,
          NumberChunk, NumberContent}

SeqsUpTo(S, n) == UNION {[1..k -> S] : k \in 0..n}

Bodies == SeqsUpTo(Lines, MaxLines)

Statuses == {"ok", "401", "404", "429", "500", "conn", "timeout"}

ContentDoc(c) == [kind |-> "content", text |-> c]
OtherDoc(k)   == [kind |-> k, text |-> <<>>]

Docs == {ContentDoc(<<"X">>), ContentDoc(<<>>), OtherDoc("nochoices"),
         OtherDoc("emptychoices"), OtherDoc("nomessage"), OtherDoc("notjson")}

----------------------------------------------------------------------------
(* What one step of the code does with its input: skip it, stop, yield a   *)
(* value, or raise.  `text` is the fragment or value; for a raise it is    *)
(* what was printed before the exception.                                  *)

Skip        == [k |-> "skip",  text |-> <<>>, exc |-> ""]
Stop        == [k |-> "done",  text |-> <<>>, exc |-> ""]
Emit(c)     == [k |-> "emit",  text |-> c,    exc |-> ""]
Value(c)    == [k |-> "value", text |-> c,    exc |-> ""]
Raise(e)    == [k |-> "raise", text |-> <<>>, exc |-> e]
RaiseAfterPrint(e, c) == [k |-> "raise", text |-> c, exc |-> e]

\* line.decode('utf-8') succeeds
Decodes(line) == line.raw # "undecodable"

\* StartsWithData testing for 'data:' without the space
StartsWithDataNoSpace(line) == line.head \in {"data: ", "data:"}

\* line.startswith('data: ')
StartsWithData(line) == line.head = "data: "

\* line[6:] == "[DONE]"
IsDonePayload(line) == line.payload = "[DONE]"

\* json.loads(line) returns a document
JsonLoads(line) == line.payload = "json"

\* bool(content)
Truthy(f) ==
    CASE f.ctype = "str" -> f.ctext # <<>>
      [] f.ctype \in {"num", "true", "list"} -> TRUE
      [] OTHER -> FALSE

\* ExtractFrame indexing chunk["choices"][0]["delta"] instead of using .get
ExtractFrameIndexDelta(f) ==
    IF f.chunk \in {"num", "null"} THEN Raise("TypeError")
    ELSE IF f.chunk # "obj" \/ f.choices = "absent" THEN Skip
    ELSE IF f.choices \in {"num", "null"} THEN Raise("TypeError")
    ELSE IF f.choices \in {"list0", "obj0", "str0"} THEN Skip
    ELSE IF f.choices = "obj" THEN Raise("KeyError")
    ELSE IF f.first # "obj" THEN Raise("AttributeError")
    ELSE IF f.delta = "absent" THEN Raise("KeyError")
    ELSE IF f.delta # "obj" THEN Raise("AttributeError")
    ELSE IF f.ctype = "absent" THEN Skip
    ELSE IF ~Truthy(f) THEN Skip
    ELSE IF f.ctype = "str" THEN Emit(f.ctext)
    ELSE RaiseAfterPrint("TypeError", f.ctext)

\* the body of the try block of the streaming loop, applied to a parsed chunk
ExtractFrame(f) ==
    IF f.chunk \in {"num", "null"} THEN Raise("TypeError")
    ELSE IF f.chunk # "obj" \/ f.choices = "absent" THEN Skip
    ELSE IF f.choices \in {"num", "null"} THEN Raise("TypeError")
    ELSE IF f.choices \in {"list0", "obj0", "str0"} THEN Skip
    ELSE IF f.choices = "obj" THEN Raise("KeyError")
    ELSE IF f.first # "obj" THEN Raise("AttributeError")
    ELSE IF f.delta \notin {"absent", "obj"} THEN Raise("AttributeError")
    ELSE IF f.delta = "absent" \/ f.ctype = "absent" THEN Skip
    ELSE IF ~Truthy(f) THEN Skip
    ELSE IF f.ctype = "str" THEN Emit(f.ctext)
    ELSE RaiseAfterPrint("TypeError", f.ctext)

\* Classify with `continue` in place of `break` at the sentinel
ClassifyNoBreak(line) ==
    IF line.raw = "blank" THEN Skip
    ELSE IF ~Decodes(line) THEN Raise("UnicodeDecodeError")
    ELSE IF ~StartsWithData(line) THEN Skip
    ELSE IF IsDonePayload(line) THEN Skip
    ELSE IF ~JsonLoads(line) THEN Skip
    ELSE ExtractFrame(line.frame)

\* Classify without the `except json.JSONDecodeError` clause
ClassifyStrictJson(line) ==
    IF line.raw = "blank" THEN Skip
    ELSE IF ~Decodes(line) THEN Raise("UnicodeDecodeError")
    ELSE IF ~StartsWithData(line) THEN Skip
    ELSE IF IsDonePayload(line) THEN Stop
    ELSE IF ~JsonLoads(line) THEN Raise("JSONDecodeError")
    ELSE ExtractFrame(line.frame)

\* one iteration of `for line in response.iter_lines()`
Classify(line) ==
    IF line.raw = "blank" THEN Skip
    ELSE IF ~Decodes(line) THEN Raise("UnicodeDecodeError")
    ELSE IF ~StartsWithData(line) THEN Skip
    ELSE IF IsDonePayload(line) THEN Stop
    ELSE IF ~JsonLoads(line) THEN Skip
    ELSE ExtractFrame(line.frame)

\* DocResult without the `"choices" in result and len(...) > 0` guard
DocResultNoGuard(d) ==
    CASE d.kind = "notjson"      -> Raise("JSONDecodeError")
      [] d.kind = "nochoices"    -> Raise("KeyError")
      [] d.kind = "emptychoices" -> Raise("IndexError")
      [] d.kind = "nomessage"    -> Raise("KeyError")
      [] OTHER                   -> Value(d.text)

\* the non-streaming extraction from response.json()
DocResult(d) ==
    CASE d.kind = "notjson"      -> Raise("JSONDecodeError")
      [] d.kind = "nochoices"    -> Value(<<>>)
      [] d.kind = "emptychoices" -> Value(<<>>)
      [] d.kind = "nomessage"    -> Raise("KeyError")
      [] OTHER                   -> Value(d.text)

\* the exception requests.post / raise_for_status raises for a transport answer
TransportError(st) ==
    CASE st \in {"401", "404", "429", "500"} -> "HTTPError"
      [] st = "conn"    -> "ConnectionError"
      [] st = "timeout" -> "Timeout"
      [] OTHER          -> ""

\* the notice the except clauses of NGPTClient.chat print
ErrorNotice(e, st) ==
    CASE e = "HTTPError" /\ st = "401" -> "auth-failed"
      [] e = "HTTPError" /\ st = "404" -> "not-found"
      [] e = "HTTPError" /\ st = "429" -> "rate-limit"
      [] e = "HTTPError"               -> "http-error"
      [] e = "ConnectionError"         -> "no-connection"
      [] e = "Timeout"                 -> "timed-out"
      [] e = "JSONDecodeError"         -> "request-error"
      [] e = "ChunkedEncodingError"    -> "request-error"
      [] OTHER                         -> "unexpected-error"

----------------------------------------------------------------------------
(* The request body *)

BaseKeys(i) ==
    IF i = "ngpt" THEN {"model", "messages", "stream", "temperature", "top_p"}
    ELSE {"model", "messages", "stream", "temperature", "provider", "web_search"}

\* the payload dictionary before payload.update(kwargs)
NamedKeys(i, ws, mt) ==
    BaseKeys(i)
      \cup (IF i = "ngpt" /\ ws THEN {"web_search"} ELSE {})
      \cup (IF mt # "None" THEN {"max_tokens"} ELSE {})

\* the keys of the payload dictionary that is sent
BuildPayload(i, ws, mt, kw) == NamedKeys(i, ws, mt) \cup kw

----------------------------------------------------------------------------
(* One call of chat() *)

\* an exception reaches the except clauses of chat(): NGPTClient prints a
\* notice and returns "", TOAIClient has no handler and lets it escape
Fail(e) ==
    IF impl = "ngpt"
    THEN /\ pc' = "returned"
         /\ result' = <<>>
         /\ how' = "error"
         /\ exc' = e
         /\ messages' = Append(messages, ErrorNotice(e, status))
    ELSE /\ pc' = "raised"
         /\ how' = "raised"
         /\ exc' = e
         /\ UNCHANGED <<result, messages>>

\* chat() up to the request: the API key check and the payload
ChatEnter ==
    /\ pc = "call"
    /\ IF impl = "ngpt" /\ ~apiKey
       THEN /\ pc' = "returned"
            /\ result' = <<>>
            /\ how' = "nokey"
            /\ messages' = Append(messages, "no-api-key")
            /\ UNCHANGED <<payload, overwritten>>
       ELSE /\ pc' = "post"
            /\ payload' = BuildPayload(impl, webSearch, maxTokens, kwargs)
            /\ overwritten' = NamedKeys(impl, webSearch, maxTokens) \cap kwargs
            /\ UNCHANGED <<result, how, messages>>
    /\ UNCHANGED <<cfgVars, cliVars, inputVars, requests, pos, collected, pending, display, exc>>

\* PostError sending the request a second time after a 429
PostErrorRetry ==
    /\ pc = "post"
    /\ status # "ok"
    /\ requests' = requests + (IF status = "429" THEN 2 ELSE 1)
    /\ Fail(TransportError(status))
    /\ UNCHANGED <<cfgVars, cliVars, inputVars, payload, overwritten, pos, collected, pending, display>>

\* requests.post fails or raise_for_status raises
PostError ==
    /\ pc = "post"
    /\ status # "ok"
    /\ requests' = requests + 1
    /\ Fail(TransportError(status))
    /\ UNCHANGED <<cfgVars, cliVars, inputVars, payload, overwritten, pos, collected, pending, display>>

\* the non-streaming request and the extraction from its document
PostNonStream ==
    /\ pc = "post"
    /\ status = "ok"
    /\ ~stream
    /\ requests' = requests + 1
    /\ LET r == DocResult(doc) IN
       IF r.k = "raise"
       THEN Fail(r.exc)
       ELSE /\ pc' = "returned"
            /\ result' = r.text
            /\ how' = "value"
            /\ UNCHANGED <<messages, exc>>
    /\ UNCHANGED <<cfgVars, cliVars, inputVars, payload, overwritten, pos, collected, pending, display>>

\* the streaming request is answered: collected_content = "" and the loop starts
PostStream ==
    /\ pc = "post"
    /\ status = "ok"
    /\ stream
    /\ requests' = requests + 1
    /\ pc' = "iter"
    /\ collected' = <<>>
    /\ UNCHANGED <<cfgVars, cliVars, inputVars, payload, overwritten, pos, pending, display,
                   messages, result, how, exc>>

\* KeyboardInterrupt while the request is in flight
InterruptPost ==
    /\ pc = "post"
    /\ requests' = requests + 1
    /\ IF impl = "ngpt" /\ ~stream
       THEN /\ pc' = "returned"
            /\ result' = <<>>
            /\ how' = "interrupted"
            /\ messages' = Append(messages, "request-cancelled")
            /\ UNCHANGED exc
       ELSE /\ pc' = "raised"
            /\ how' = "raised"
            /\ exc' = "KeyboardInterrupt"
            /\ UNCHANGED <<result, messages>>
    /\ UNCHANGED <<cfgVars, cliVars, inputVars, payload, overwritten, pos, collected, pending, display>>

NextLine == body[pos + 1]

\* a line that is skipped: blank, no prefix, bad JSON, or a frame without content
ReadSkip ==
    /\ pc = "iter"
    /\ pos < Len(body)
    /\ Classify(NextLine).k = "skip"
    /\ pos' = pos + 1
    /\ UNCHANGED <<cfgVars, cliVars, inputVars, pc, payload, overwritten, requests, collected,
                   pending, display, messages, result, how, exc>>

\* the sentinel: break, print the final newline, return collected_content
ReadDone ==
    /\ pc = "iter"
    /\ pos < Len(body)
    /\ Classify(NextLine).k = "done"
    /\ pos' = pos + 1
    /\ pc' = "returned"
    /\ result' = collected
    /\ how' = "done"
    /\ messages' = Append(messages, "newline")
    /\ UNCHANGED <<cfgVars, cliVars, inputVars, payload, overwritten, requests, collected,
                   pending, display, exc>>

\* a frame with content: print(content, end="", flush=True)
ReadEmit ==
    /\ pc = "iter"
    /\ pos < Len(body)
    /\ Classify(NextLine).k = "emit"
    /\ pos' = pos + 1
    /\ pending' = Classify(NextLine).text
    /\ display' = display \o Classify(NextLine).text
    /\ pc' = "printed"
    /\ UNCHANGED <<cfgVars, cliVars, inputVars, payload, overwritten, requests, collected,
                   messages, result, how, exc>>

\* Accumulate assigning the fragment (collected_content = content) instead
\* of appending it
AccumulateReplace ==
    /\ pc = "printed"
    /\ collected' = pending
    /\ pending' = <<>>
    /\ pc' = "iter"
    /\ UNCHANGED <<cfgVars, cliVars, inputVars, payload, overwritten, requests, pos, display,
                   messages, result, how, exc>>

\* collected_content += content
Accumulate ==
    /\ pc = "printed"
    /\ collected' = collected \o pending
    /\ pending' = <<>>
    /\ pc' = "iter"
    /\ UNCHANGED <<cfgVars, cliVars, inputVars, payload, overwritten, requests, pos, display,
                   messages, result, how, exc>>

\* a line on which the loop body raises something other than JSONDecodeError
ReadRaise ==
    /\ pc = "iter"
    /\ pos < Len(body)
    /\ Classify(NextLine).k = "raise"
    /\ pos' = pos + 1
    /\ display' = display \o Classify(NextLine).text
    /\ Fail(Classify(NextLine).exc)
    /\ UNCHANGED <<cfgVars, cliVars, inputVars, payload, overwritten, requests, collected, pending>>

\* iter_lines() is exhausted: print the final newline, return collected_content
EndOfInput ==
    /\ pc = "iter"
    /\ pos = Len(body)
    /\ pc' = "returned"
    /\ result' = collected
    /\ how' = "eof"
    /\ messages' = Append(messages, "newline")
    /\ UNCHANGED <<cfgVars, cliVars, inputVars, payload, overwritten, requests, pos, collected,
                   pending, display, exc>>

\* the connection breaks while iter_lines() waits for the next line: the
\* exception of requests reaches the except clauses of chat()
StreamBroken ==
    /\ pc = "iter"
    /\ IF impl = "ngpt"
       THEN /\ pc' = "returned"
            /\ result' = <<>>
            /\ how' = "broken"
            /\ exc' = "ChunkedEncodingError"
            /\ messages' = Append(messages, "request-error")
       ELSE /\ pc' = "raised"
            /\ how' = "raised"
            /\ exc' = "ChunkedEncodingError"
            /\ UNCHANGED <<result, messages>>
    /\ UNCHANGED <<cfgVars, cliVars, inputVars, payload, overwritten, requests, pos, collected,
                   pending, display>>

\* KeyboardInterrupt inside the loop, between or within two statements
Interrupt ==
    /\ pc \in {"iter", "printed"}
    /\ IF impl = "ngpt"
       THEN /\ pc' = "returned"
            /\ result' = collected
            /\ how' = "interrupted"
            /\ messages' = Append(messages, "generation-cancelled")
            /\ UNCHANGED exc
       ELSE /\ pc' = "raised"
            /\ how' = "raised"
            /\ exc' = "KeyboardInterrupt"
            /\ UNCHANGED <<result, messages>>
    /\ UNCHANGED <<cfgVars, cliVars, inputVars, payload, overwritten, requests, pos, collected,
                   pending, display>>

----------------------------------------------------------------------------
(* The configuration file of ngpt: a JSON list of profiles, each with the  *)
(* keys api_key, base_url, provider and model.  A file is modelled by its  *)
(* kind (missing, unreadable, a single object, a list) and the profiles it *)
(* holds.  Indices are the 0-based indices of the Python code.             *)

MaxProfiles == 3

DEFAULT_CONFIG_ENTRY ==
    [api_key |-> "", base_url |-> "https://api.openai.com/v1/",
     provider |-> "OpenAI", model |-> "gpt-3.5-turbo"]

DEFAULT_CONFIG == <<DEFAULT_CONFIG_ENTRY>>

\* provider names: two of them differ in case only
Names == {"OpenAI", "openai", "Groq"}

\* str.lower() on the provider names and on the answers to a [y/N] prompt
Lower(s) ==
    CASE s = "OpenAI" -> "openai"
      [] s = "Groq" -> "groq"
      [] s = "Ollama" -> "ollama"
      [] s = "Y" -> "y"
      [] s \in {"Yes", "YES"} -> "yes"
      [] OTHER -> s

ConfirmedDefaultYes(a) == Lower(a) \in {"y", "yes", ""}

\* the answer to a [y/N] prompt counts as yes: input().lower() in ('y', 'yes')
Confirmed(a) == Lower(a) \in {"y", "yes"}

\* what the user types at a [y/N] prompt; "interrupt" is Ctrl-C
ConfirmAnswers == {"y", "Y", "yes", "Yes", "YES", "n", "", "interrupt"}

\* a profile a user wrote by hand or saved earlier
StoredProfile(p) ==
    [api_key |-> "file-key", base_url |-> "http://file/", provider |-> p,
     model |-> "file-model"]

FileProfiles == {StoredProfile(p) : p \in Names} \cup {DEFAULT_CONFIG_ENTRY}

NoProfile == [api_key |-> "", base_url |-> "", provider |-> "", model |-> ""]

MissingFile == [kind |-> "missing", profiles |-> <<>>]

\* not JSON, or not readable
UnreadableFile == [kind |-> "unreadable", profiles |-> <<>>]

\* the old format: one JSON object
ObjectFile(p) == [kind |-> "object", profiles |-> <<p>>]

ListFile(ps) == [kind |-> "list", profiles |-> ps]

\* an environment variable that is not set
Unset == "<unset>"

NoEnv == [OPENAI_API_KEY |-> Unset, OPENAI_BASE_URL |-> Unset, OPENAI_MODEL |-> Unset]

Envs ==
    [OPENAI_API_KEY : {Unset, "", "env-key"},
     OPENAI_BASE_URL : {Unset, "http://env/"},
     OPENAI_MODEL : {Unset, "env-model"}]

\* an argument that was not passed: provider=None, --api-key absent
NoArg == "<none>"

\* the record of an operation: its name, whether an index was passed (for
\* main(): whether --config-index is on the command line), the index, the
\* provider, the answers typed at its prompts, and the flags of main()
NoCall ==
    [op |-> "", given |-> FALSE, index |-> 0, provider |-> NoArg,
     choice |-> "", answer |-> "", config |-> NoArg, remove |-> FALSE,
     typed |-> FALSE, name |-> "", writable |-> TRUE,
     api_key |-> NoArg, base_url |-> NoArg, model |-> NoArg]

NoLoad == [config |-> NoProfile, index |-> -1]

NoClient == [api_key |-> "", base_url |-> "", model |-> ""]

\* no configuration operation has run: the state of the configuration
\* variables throughout a call of chat() and a run of the chat modes
CfgIdle ==
    /\ file = MissingFile
    /\ env = NoEnv
    /\ call = NoCall
    /\ before = <<>>
    /\ ret = ""
    /\ loaded = NoLoad
    /\ client = NoClient

----------------------------------------------------------------------------
(* The specification of a direct call of chat() *)

NoKwargs == {}

Init ==
    /\ impl \in {"ngpt", "tOAI"}
    /\ apiKey \in (IF impl = "ngpt" THEN BOOLEAN ELSE {TRUE})
    /\ stream \in (IF apiKey THEN BOOLEAN ELSE {TRUE})
    /\ status \in (IF apiKey THEN Statuses ELSE {"ok"})
    /\ webSearch \in BOOLEAN
    /\ maxTokens \in {"None", "int"}
    /\ kwargs = NoKwargs
    \* inputs the call never looks at are held at one value, and the
    \* arguments that only shape the request vary with the empty response
    /\ body \in (IF apiKey /\ stream /\ status = "ok" /\ ~webSearch /\ maxTokens = "None"
                 THEN Bodies ELSE {<<>>})
    /\ doc \in (IF ~stream /\ status = "ok" /\ ~webSearch /\ maxTokens = "None"
                THEN Docs ELSE {ContentDoc(<<"X">>)})
    /\ pc = "call"
    /\ payload = {}
    /\ overwritten = {}
    /\ requests = 0
    /\ pos = 0
    /\ collected = <<>>
    /\ pending = <<>>
    /\ display = <<>>
    /\ messages = <<>>
    /\ result = <<>>
    /\ how = ""
    /\ exc = ""
    /\ mode = "direct"
    /\ prettify = FALSE
    /\ noStream = FALSE
    /\ hasRenderer = TRUE
    /\ cpc = "none"
    /\ turns = 0
    /\ answer = ""
    /\ executed = FALSE
    /\ shown = ""
    /\ exitCode = -1
    /\ CfgIdle

Next ==
    \/ ChatEnter
    \/ PostError
    \/ PostNonStream
    \/ PostStream
    \/ InterruptPost
    \/ ReadSkip
    \/ ReadDone
    \/ ReadEmit
    \/ Accumulate
    \/ ReadRaise
    \/ EndOfInput
    \/ StreamBroken
    \/ Interrupt

Spec == Init /\ [][Next]_vars

TypeOK ==
    /\ pc \in {"idle", "call", "post", "iter", "printed", "returned", "raised"}
    /\ pos \in 0..Len(body)
    /\ requests \in 0..MaxTurns

----------------------------------------------------------------------------
(* The ngpt program: main() from the configuration check to its exit, in   *)
(* the modes that send a chat request.                                     *)

Modes == {"default", "text", "interactive", "shell", "code"}

chatVars == <<payload, overwritten, requests, pos, collected, pending, display,
              messages, result, how, exc>>

\* how main() and the session show a response that was not streamed
Show(r) ==
    IF (noStream \/ prettify) /\ r # <<>>
    THEN IF prettify THEN "pretty" ELSE "plain"
    ELSE shown

\* check_config and the renderer check: without an API key main() returns
MainCheck ==
    /\ cpc = "main"
    /\ IF ~apiKey
       THEN /\ cpc' = "exited"
            /\ exitCode' = 0
            /\ UNCHANGED prettify
       ELSE /\ cpc' = "dispatch"
            /\ prettify' = (prettify /\ hasRenderer)
            /\ UNCHANGED exitCode
    /\ UNCHANGED <<cfgVars, mode, noStream, hasRenderer, turns, answer, executed, shown,
                   inputVars, pc, chatVars>>

\* default and text mode: client.chat(..., markdown_format=args.prettify)
MainChat ==
    /\ cpc = "dispatch"
    /\ mode \in {"default", "text"}
    /\ stream' = (~noStream /\ ~prettify)
    /\ kwargs' = {"markdown_format"}
    /\ pc' = "call"
    /\ cpc' = "chat"
    /\ UNCHANGED <<cfgVars, mode, prettify, noStream, hasRenderer, turns, answer, executed,
                   shown, exitCode, impl, apiKey, webSearch, maxTokens, status,
                   body, doc, chatVars>>

\* interactive mode: the first exchange of interactive_chat_session
MainInteractive ==
    /\ cpc = "dispatch"
    /\ mode = "interactive"
    /\ stream' = (~noStream /\ ~prettify)
    /\ kwargs' = {"markdown_format"}
    /\ pc' = "call"
    /\ cpc' = "session"
    /\ turns' = 1
    /\ UNCHANGED <<cfgVars, mode, prettify, noStream, hasRenderer, answer, executed,
                   shown, exitCode, impl, apiKey, webSearch, maxTokens, status,
                   body, doc, chatVars>>

\* shell mode: generate_shell_command calls chat(stream=False) with no extras
MainShell ==
    /\ cpc = "dispatch"
    /\ mode = "shell"
    /\ stream' = FALSE
    /\ kwargs' = {}
    /\ pc' = "call"
    /\ cpc' = "shell"
    /\ UNCHANGED <<cfgVars, mode, prettify, noStream, hasRenderer, turns, answer, executed,
                   shown, exitCode, impl, apiKey, webSearch, maxTokens, status,
                   body, doc, chatVars>>

\* code mode: generate_code(..., markdown_format=...) is a TypeError, which
\* the last except clause of main() turns into exit status 1
MainCode ==
    /\ cpc = "dispatch"
    /\ mode = "code"
    /\ cpc' = "exited"
    /\ exitCode' = 1
    /\ messages' = Append(messages, "main-error")
    /\ UNCHANGED <<cfgVars, mode, prettify, noStream, hasRenderer, turns, answer, executed,
                   shown, inputVars, pc, payload, overwritten, requests, pos,
                   collected, pending, display, result, how, exc>>

\* default and text mode after chat() returned: show the response and return
MainShow ==
    /\ cpc = "chat"
    /\ pc = "returned"
    /\ shown' = Show(result)
    /\ cpc' = "exited"
    /\ exitCode' = 0
    /\ UNCHANGED <<cfgVars, mode, prettify, noStream, hasRenderer, turns, answer, executed,
                   inputVars, pc, chatVars>>

\* a KeyboardInterrupt that escaped chat() reaches main(): exit status 130
MainInterrupted ==
    /\ cpc = "chat"
    /\ pc = "raised"
    /\ cpc' = "exited"
    /\ exitCode' = 130
    /\ UNCHANGED <<cfgVars, mode, prettify, noStream, hasRenderer, turns, answer, executed,
                   shown, inputVars, pc, chatVars>>

\* the session shows the response and the user sends another message
SessionNextTurn ==
    /\ cpc = "session"
    /\ pc = "returned"
    /\ turns < MaxTurns
    /\ shown' = Show(result)
    /\ turns' = turns + 1
    /\ pc' = "call"
    /\ pos' = 0
    /\ collected' = <<>>
    /\ pending' = <<>>
    /\ result' = <<>>
    /\ how' = ""
    /\ exc' = ""
    /\ UNCHANGED <<cfgVars, mode, prettify, noStream, hasRenderer, cpc, answer, executed,
                   exitCode, inputVars, payload, overwritten, requests, display,
                   messages>>

\* the session shows the response and the user types exit
SessionEnd ==
    /\ cpc = "session"
    /\ pc = "returned"
    /\ shown' = Show(result)
    /\ cpc' = "exited"
    /\ exitCode' = 0
    /\ UNCHANGED <<cfgVars, mode, prettify, noStream, hasRenderer, turns, answer, executed,
                   inputVars, pc, chatVars>>

\* a KeyboardInterrupt that escaped chat() ends the session, and main() returns
SessionInterrupted ==
    /\ cpc = "session"
    /\ pc = "raised"
    /\ cpc' = "exited"
    /\ exitCode' = 0
    /\ UNCHANGED <<cfgVars, mode, prettify, noStream, hasRenderer, turns, answer, executed,
                   shown, inputVars, pc, chatVars>>

\* shell mode after the command was generated: nothing to run, or the
\* confirmation prompt and subprocess.run on `y` or `yes`
ShellConfirm ==
    /\ cpc = "shell"
    /\ pc = "returned"
    /\ IF result = <<>>
       THEN UNCHANGED <<answer, executed>>
       ELSE \E a \in ConfirmAnswers :
               /\ answer' = a
               /\ executed' = Confirmed(a)
    /\ cpc' = "exited"
    /\ exitCode' = 0
    /\ UNCHANGED <<cfgVars, mode, prettify, noStream, hasRenderer, turns, shown,
                   inputVars, pc, chatVars>>

\* tOAI: an exception that escaped chat() and generate_shell_command is
\* printed by the except clauses of main(), which then returns
ShellRaised ==
    /\ cpc = "shell"
    /\ pc = "raised"
    /\ cpc' = "exited"
    /\ exitCode' = 0
    /\ UNCHANGED <<cfgVars, mode, prettify, noStream, hasRenderer, turns, answer,
                   executed, shown, inputVars, pc, chatVars>>

CliLines == {BlankLine, DoneLine, FrameA, NumberChunk}

CliBodies == SeqsUpTo(CliLines, CliMaxLines)

CliDocs == {ContentDoc(<<"X">>), OtherDoc("nochoices")}

InitCli ==
    /\ impl = "ngpt"
    /\ mode \in Modes
    /\ prettify \in BOOLEAN
    /\ noStream \in BOOLEAN
    /\ hasRenderer \in BOOLEAN
    /\ ~prettify => hasRenderer
    /\ apiKey \in BOOLEAN
    /\ webSearch \in BOOLEAN
    /\ maxTokens \in {"None", "int"}
    /\ status \in {"ok", "401"}
    /\ body \in CliBodies
    /\ doc \in CliDocs
    /\ stream = FALSE
    /\ kwargs = {}
    /\ cpc = "main"
    /\ pc = "idle"
    /\ payload = {}
    /\ overwritten = {}
    /\ requests = 0
    /\ pos = 0
    /\ collected = <<>>
    /\ pending = <<>>
    /\ display = <<>>
    /\ messages = <<>>
    /\ result = <<>>
    /\ how = ""
    /\ exc = ""
    /\ turns = 0
    /\ answer = ""
    /\ executed = FALSE
    /\ shown = ""
    /\ exitCode = -1
    /\ CfgIdle

NextCli ==
    \/ MainCheck
    \/ MainChat
    \/ MainInteractive
    \/ MainShell
    \/ MainCode
    \/ MainShow
    \/ MainInterrupted
    \/ SessionNextTurn
    \/ SessionEnd
    \/ SessionInterrupted
    \/ ShellConfirm
    \/ ChatEnter
    \/ PostError
    \/ PostNonStream
    \/ PostStream
    \/ InterruptPost
    \/ ReadSkip
    \/ ReadDone
    \/ ReadEmit
    \/ Accumulate
    \/ ReadRaise
    \/ EndOfInput
    \/ StreamBroken
    \/ Interrupt

SpecCli == InitCli /\ [][NextCli]_vars

\* shell mode of the two programs, ngpt and tOAI: the same steps of main(),
\* each with its own client
InitShell ==
    /\ impl \in {"ngpt", "tOAI"}
    /\ mode = "shell"
    /\ prettify = FALSE
    /\ noStream = FALSE
    /\ hasRenderer = TRUE
    /\ apiKey \in BOOLEAN
    /\ webSearch \in BOOLEAN
    /\ maxTokens \in {"None", "int"}
    /\ status \in Statuses
    /\ body = <<>>
    /\ doc \in Docs
    /\ stream = FALSE
    /\ kwargs = {}
    /\ cpc = "main"
    /\ pc = "idle"
    /\ payload = {}
    /\ overwritten = {}
    /\ requests = 0
    /\ pos = 0
    /\ collected = <<>>
    /\ pending = <<>>
    /\ display = <<>>
    /\ messages = <<>>
    /\ result = <<>>
    /\ how = ""
    /\ exc = ""
    /\ turns = 0
    /\ answer = ""
    /\ executed = FALSE
    /\ shown = ""
    /\ exitCode = -1
    /\ CfgIdle

NextShell ==
    \/ MainCheck
    \/ MainShell
    \/ ShellConfirm
    \/ ShellRaised
    \/ ChatEnter
    \/ PostError
    \/ PostNonStream
    \/ InterruptPost

SpecShell == InitShell /\ [][NextShell]_vars

----------------------------------------------------------------------------
(* Reading the configuration: load_configs, load_config, and the part of   *)
(* main() that resolves the profile the client is built from.  Each        *)
(* operation is one run of the program on the file as it finds it.         *)

progVars == <<inputVars, pc, chatVars, cliVars>>

\* no chat request is in progress and no chat mode of main() runs
ProgIdle ==
    /\ impl = "ngpt"
    /\ apiKey = FALSE
    /\ stream = FALSE
    /\ webSearch = FALSE
    /\ maxTokens = "None"
    /\ kwargs = {}
    /\ status = "ok"
    /\ body = <<>>
    /\ doc = ContentDoc(<<"X">>)
    /\ pc = "idle"
    /\ payload = {}
    /\ overwritten = {}
    /\ requests = 0
    /\ pos = 0
    /\ collected = <<>>
    /\ pending = <<>>
    /\ display = <<>>
    /\ messages = <<>>
    /\ result = <<>>
    /\ how = ""
    /\ exc = ""
    /\ mode = "config"
    /\ prettify = FALSE
    /\ noStream = FALSE
    /\ hasRenderer = TRUE
    /\ cpc = "none"
    /\ turns = 0
    /\ answer = ""
    /\ executed = FALSE
    /\ shown = ""
    /\ exitCode = -1

\* what load_configs returns for a file
load_configs(f) ==
    IF f.kind \in {"missing", "unreadable"} THEN DEFAULT_CONFIG ELSE f.profiles

\* the file after load_configs: a missing file is created with the default
create_default_config(f) ==
    IF f.kind = "missing" THEN ListFile(DEFAULT_CONFIG) ELSE f

\* the 0-based indices of the profiles whose provider matches, in order
MatchingConfigs(configs, provider) ==
    SelectSeq([i \in 1..Len(configs) |-> i - 1],
              LAMBDA i : Lower(configs[i + 1].provider) = Lower(provider))

\* what the user types when asked to choose among several matches
Choices == {"", "0", "1", "7", "x", "interrupt"}

DigitValue(c) == CASE c = "0" -> 0 [] c = "1" -> 1 [] c = "7" -> 7 [] OTHER -> -1

\* choice and choice.isdigit() and 0 <= int(choice) < n
IsChoice(c, n) == DigitValue(c) >= 0 /\ DigitValue(c) < n

\* env_var in os.environ and os.environ[env_var]
EnvSet(e, v) == e[v] # Unset /\ e[v] # ""

\* the loop over env_mapping
ApplyEnv(config, e) ==
    [config EXCEPT
        !.api_key = IF EnvSet(e, "OPENAI_API_KEY") THEN e.OPENAI_API_KEY ELSE @,
        !.base_url = IF EnvSet(e, "OPENAI_BASE_URL") THEN e.OPENAI_BASE_URL ELSE @,
        !.model = IF EnvSet(e, "OPENAI_MODEL") THEN e.OPENAI_MODEL ELSE @]

\* `if provider:`
Given(a) == a # NoArg /\ a # ""

\* the index load_config settles on before the range check
SelectIndex(configs, config_index, provider, choice) ==
    LET matching == MatchingConfigs(configs, provider)
    IN  IF ~Given(provider) THEN config_index
        ELSE IF matching = <<>> THEN 0
        ELSE IF Len(matching) > 1
             THEN IF IsChoice(choice, Len(matching))
                  THEN matching[DigitValue(choice) + 1]
                  ELSE matching[1]
        ELSE matching[1]

\* load_config: the profile returned and the index it was taken from, -1
\* when the list is empty and a copy of the default entry is returned
load_config(f, config_index, provider, choice, e) ==
    LET configs == load_configs(f)
        idx == SelectIndex(configs, config_index, provider, choice)
    IN  IF idx < 0 \/ idx >= Len(configs)
        THEN IF Len(configs) > 0
             THEN [config |-> ApplyEnv(configs[1], e), index |-> 0]
             ELSE [config |-> DEFAULT_CONFIG_ENTRY, index |-> -1]
        ELSE [config |-> ApplyEnv(configs[idx + 1], e), index |-> idx]

\* the prompt for a choice appears only when several profiles match
ChoicesFor(configs, provider) ==
    IF Given(provider) /\ Len(MatchingConfigs(configs, provider)) > 1
    THEN Choices ELSE {""}

ProviderArgs == {NoArg, "", "groq"} \cup Names

IndexArgs == (0 - 1)..MaxProfiles

\* a call of load_config(path, config_index, provider)
LoadConfig ==
    /\ call.op = ""
    /\ \E e \in Envs, i \in IndexArgs, p \in ProviderArgs :
       \E c \in ChoicesFor(load_configs(file), p) :
          /\ env' = e
          /\ call' = [NoCall EXCEPT !.op = "load_config", !.given = TRUE,
                                    !.index = i, !.provider = p, !.choice = c]
          /\ before' = load_configs(file)
          /\ ret' = "returned"
          /\ file' = create_default_config(file)
          /\ loaded' = load_config(file, i, p, c, e)
    /\ UNCHANGED <<client, progVars>>

\* str.endswith('/') on the URLs of the model
EndsWithSlash(u) == u # "http://flag"

\* base_url + '/' on the one URL of the model without a trailing slash
AddSlash(u) == IF u = "http://flag" THEN "http://flag/" ELSE u

\* NGPTClient.__init__
NGPTClient(config) ==
    [api_key |-> config.api_key,
     base_url |-> IF EndsWithSlash(config.base_url) THEN config.base_url
                  ELSE AddSlash(config.base_url),
     model |-> config.model]

\* `if args.api_key: active_config["api_key"] = args.api_key`, and so on
Override(config, ak, bu, mo) ==
    [config EXCEPT
        !.api_key = IF Given(ak) THEN ak ELSE @,
        !.base_url = IF Given(bu) THEN bu ELSE @,
        !.model = IF Given(mo) THEN mo ELSE @]

ApiKeyFlags == {NoArg, "", "flag-key"}

BaseUrlFlags == {NoArg, "http://flag"}

ModelFlags == {NoArg, "flag-model"}

\* main() in a chat mode, from the parsed arguments to the client: the
\* exclusion of --config-index with --provider, load_config, the flag
\* overrides, check_config and the constructor
MainResolve ==
    /\ call.op = ""
    /\ \E e \in Envs, i \in IndexArgs, p \in ProviderArgs,
          ak \in ApiKeyFlags, bu \in BaseUrlFlags, mo \in ModelFlags :
       \E c \in ChoicesFor(load_configs(file), p) :
          /\ env' = e
          /\ call' = [NoCall EXCEPT !.op = "main", !.given = TRUE, !.index = i,
                                    !.provider = p, !.choice = c, !.api_key = ak,
                                    !.base_url = bu, !.model = mo]
          /\ before' = load_configs(file)
          /\ IF i # 0 /\ Given(p)
             THEN /\ ret' = "usage"
                  /\ UNCHANGED <<file, loaded, client>>
             ELSE LET l == load_config(file, i, p, c, e)
                      active == Override(l.config, ak, bu, mo)
                  IN  /\ file' = create_default_config(file)
                      /\ loaded' = l
                      /\ IF active.api_key = ""
                         THEN /\ ret' = "no-key"
                              /\ UNCHANGED client
                         ELSE /\ ret' = "client"
                              /\ client' = NGPTClient(active)
    /\ UNCHANGED progVars

\* the files a user may have: missing, unreadable, the old single-object
\* format, and lists of up to MaxProfiles profiles, the empty list included
LoadFiles ==
    {MissingFile, UnreadableFile}
        \cup {ObjectFile(p) : p \in FileProfiles}
        \cup {ListFile(ps) : ps \in SeqsUpTo(FileProfiles, MaxProfiles)}

InitLoad ==
    /\ file \in LoadFiles
    /\ env = NoEnv
    /\ call = NoCall
    /\ before = <<>>
    /\ ret = ""
    /\ loaded = NoLoad
    /\ client = NoClient
    /\ ProgIdle

NextLoad ==
    \/ LoadConfig
    \/ MainResolve

SpecLoad == InitLoad /\ [][NextLoad]_vars

----------------------------------------------------------------------------
(* Changing the configuration: add_config_entry, remove_config_entry and   *)
(* the `--config` branch of main().  An operation is given as a function   *)
(* from the file it finds to the file it leaves and the way it ends.  A    *)
(* failure to write is modelled where the code handles it (the except      *)
(* clause of remove_config_entry).                                         *)

\* configs[i] of a Python list: a negative index counts from the end
PyIndex(configs, i) == IF i >= 0 THEN i ELSE Len(configs) + i

PopLast(configs, i) == SubSeq(configs, 1, Len(configs) - 1)

\* configs.pop(i) for an index in range
Pop(configs, i) == SubSeq(configs, 1, i) \o SubSeq(configs, i + 2, Len(configs))

\* the profiles a reader of the file gets
Stored(f) == load_configs(f)

is_provider_unique_cased(configs, provider, exclude) ==
    \A i \in 1..Len(configs) :
        (i - 1) \in exclude \/ configs[i].provider # provider

\* is_provider_unique; exclude is {} for exclude_index=None
is_provider_unique(configs, provider, exclude) ==
    \A i \in 1..Len(configs) :
        (i - 1) \in exclude \/ Lower(configs[i].provider) # Lower(provider)

\* the value of a field after its prompt: typed, or Enter to keep the base
Answered(typed, value, base) == IF typed THEN value ELSE base

\* add_config_entry(path, idx) with the answers typed at its prompts: typed
\* says whether API key, base URL and model were typed or Enter was pressed,
\* name is the last answer to the provider prompt.  "rejected" is the name
\* that is taken, after which the prompt is repeated.
add_config_entry(f, given, idx, typed, name, interrupt) ==
    LET configs == load_configs(f)
        created == create_default_config(f)
        is_existing_config == given /\ idx < Len(configs)
        at == PyIndex(configs, idx)
    IN  IF is_existing_config /\ at < 0
        THEN [file |-> created, ret |-> "IndexError"]
        ELSE IF interrupt
        THEN [file |-> created, ret |-> "cancelled"]
        ELSE LET base == IF is_existing_config THEN configs[at + 1]
                         ELSE DEFAULT_CONFIG_ENTRY
                 provider == IF name # "" THEN name ELSE base.provider
                 provider_unique ==
                     \/ is_existing_config /\ Lower(provider) = Lower(base.provider)
                     \/ is_provider_unique(configs, provider,
                                           IF is_existing_config THEN {idx} ELSE {})
                 entry == [api_key |-> Answered(typed, "file-key", base.api_key),
                           base_url |-> Answered(typed, "http://file/", base.base_url),
                           provider |-> provider,
                           model |-> Answered(typed, "file-model", base.model)]
             IN  IF ~provider_unique
                 THEN [file |-> created, ret |-> "rejected"]
                 ELSE [file |-> ListFile(IF is_existing_config
                                         THEN [configs EXCEPT ![at + 1] = entry]
                                         ELSE Append(configs, entry)),
                       ret |-> "saved"]

\* remove_config_entry(path, idx); writable is whether open(path, "w") succeeds
remove_config_entry(f, idx, writable) ==
    LET configs == load_configs(f)
        created == create_default_config(f)
    IN  IF idx < 0 \/ idx >= Len(configs)
        THEN [file |-> created, ret |-> "False"]
        ELSE IF ~writable
        THEN [file |-> created, ret |-> "False"]
        ELSE [file |-> ListFile(Pop(configs, idx)), ret |-> "True"]

ExplicitTargetAny(explicit, provider) == TRUE

\* `'--config-index' not in sys.argv and not args.provider` is a usage error
ExplicitTarget(explicit, provider) == explicit \/ Given(provider)

\* main() with --config and --remove: asked says whether the confirmation
\* prompt was reached
main_remove(f, explicit, index, provider, choice, reply, writable) ==
    LET configs == load_configs(f)
        created == create_default_config(f)
        matching == MatchingConfigs(configs, provider)
        config_index ==
            IF ~Given(provider) THEN index
            ELSE IF Len(matching) > 1 THEN matching[DigitValue(choice) + 1]
            ELSE matching[1]
    IN  IF ~ExplicitTarget(explicit, provider)
        THEN [file |-> f, ret |-> "usage", asked |-> FALSE]
        ELSE IF Given(provider) /\ matching = <<>>
        THEN [file |-> created, ret |-> "no-match", asked |-> FALSE]
        ELSE IF Given(provider) /\ Len(matching) > 1 /\ ~IsChoice(choice, Len(matching))
        THEN [file |-> created, ret |-> "cancelled", asked |-> FALSE]
        ELSE IF config_index < 0 \/ config_index >= Len(configs)
        THEN [file |-> created, ret |-> "out-of-range", asked |-> FALSE]
        ELSE IF Confirmed(reply)
        THEN [file |-> remove_config_entry(created, config_index, writable).file,
              ret |-> remove_config_entry(created, config_index, writable).ret,
              asked |-> TRUE]
        ELSE [file |-> created, ret |-> "cancelled", asked |-> TRUE]

\* main() with --config and without --remove: the index handed to
\* add_config_entry is None unless a profile was found to edit
main_add(f, explicit, index, provider, choice, typed, name, interrupt) ==
    LET configs == load_configs(f)
        matching == MatchingConfigs(configs, provider)
        editing ==
            IF Given(provider) THEN matching # <<>>
            ELSE (index # 0 \/ explicit) /\ index >= 0 /\ index < Len(configs)
        config_index ==
            IF ~Given(provider) THEN index
            ELSE IF Len(matching) > 1 /\ IsChoice(choice, Len(matching))
                 THEN matching[DigitValue(choice) + 1]
            ELSE matching[1]
    IN  add_config_entry(create_default_config(f), editing,
                         IF editing THEN config_index ELSE 0,
                         typed, name, interrupt)

\* the provider names typed at the prompt of add_config_entry, "" for Enter
ProviderAnswers == {"", "Ollama"} \cup Names

\* the index argument of add_config_entry, below -len(configs) included
AddIndexArgs == (0 - MaxProfiles - 1)..MaxProfiles

\* what was typed at the prompts of add_config_entry: Ctrl-C, or answers
AddAnswers ==
    {[typed |-> FALSE, name |-> "", interrupt |-> TRUE]}
        \cup [typed : BOOLEAN, name : ProviderAnswers, interrupt : {FALSE}]

\* --config-index and --provider as main() sees them: given is whether
\* --config-index is on the command line, and its default is 0
CliTargets ==
    [given : {FALSE}, index : {0}, provider : ProviderArgs]
        \cup [given : {TRUE}, index : IndexArgs, provider : ProviderArgs]

\* a call of add_config_entry(path, idx), idx None when not given
AddConfigEntry ==
    /\ call.op = ""
    /\ \E given \in BOOLEAN, a \in AddAnswers :
       \E idx \in (IF given THEN AddIndexArgs ELSE {0}) :
          LET r == add_config_entry(file, given, idx, a.typed, a.name, a.interrupt)
          IN  /\ r.ret # "rejected"
              /\ r.ret = "IndexError" => a = [typed |-> FALSE, name |-> "", interrupt |-> FALSE]
              /\ Len(Stored(r.file)) <= MaxProfiles
              /\ file' = r.file
              /\ ret' = r.ret
              /\ call' = [NoCall EXCEPT !.op = "add_config_entry", !.given = given,
                                        !.index = idx, !.typed = a.typed,
                                        !.name = a.name]
    /\ before' = Stored(file)
    /\ UNCHANGED <<env, loaded, client, progVars>>

\* a call of remove_config_entry(path, idx)
RemoveConfigEntry ==
    /\ call.op = ""
    /\ \E idx \in IndexArgs, writable \in BOOLEAN :
          LET r == remove_config_entry(file, idx, writable)
          IN  /\ ~writable => file.kind # "missing" /\ idx >= 0 /\ idx < Len(Stored(file))
              /\ file' = r.file
              /\ ret' = r.ret
              /\ call' = [NoCall EXCEPT !.op = "remove_config_entry", !.given = TRUE,
                                        !.index = idx, !.writable = writable]
    /\ before' = Stored(file)
    /\ UNCHANGED <<env, loaded, client, progVars>>

\* line 816: --config-index other than 0 together with --provider
Exclusive(t) == t.index # 0 /\ Given(t.provider)

\* `ngpt --config --remove ...`
MainRemoveConfig ==
    /\ call.op = ""
    /\ \E t \in CliTargets, a \in ConfirmAnswers, writable \in BOOLEAN :
       \E c \in ChoicesFor(Stored(file), t.provider) :
          LET r == IF Exclusive(t)
                   THEN [file |-> file, ret |-> "usage", asked |-> FALSE]
                   ELSE main_remove(file, t.given, t.index, t.provider, c, a, writable)
          IN  /\ ~r.asked => a = ""
              /\ ~writable => r.asked /\ Confirmed(a) /\ file.kind # "missing"
              /\ file' = r.file
              /\ ret' = r.ret
              /\ call' = [NoCall EXCEPT !.op = "main", !.config = "bare",
                                        !.remove = TRUE, !.given = t.given,
                                        !.index = t.index, !.provider = t.provider,
                                        !.choice = c, !.answer = a,
                                        !.writable = writable]
    /\ before' = Stored(file)
    /\ UNCHANGED <<env, loaded, client, progVars>>

\* `ngpt --config ...` without --remove
MainAddConfig ==
    /\ call.op = ""
    /\ \E t \in CliTargets, a \in AddAnswers :
       \E c \in ChoicesFor(Stored(file), t.provider) :
          LET r == IF Exclusive(t)
                   THEN [file |-> file, ret |-> "usage"]
                   ELSE main_add(file, t.given, t.index, t.provider, c,
                                 a.typed, a.name, a.interrupt)
          IN  /\ r.ret # "rejected"
              /\ r.ret = "usage" => a = [typed |-> FALSE, name |-> "", interrupt |-> FALSE]
              /\ Len(Stored(r.file)) <= MaxProfiles
              /\ file' = r.file
              /\ ret' = r.ret
              /\ call' = [NoCall EXCEPT !.op = "main", !.config = "bare",
                                        !.given = t.given, !.index = t.index,
                                        !.provider = t.provider, !.choice = c,
                                        !.typed = a.typed, !.name = a.name]
    /\ before' = Stored(file)
    /\ UNCHANGED <<env, loaded, client, progVars>>

\* a run without a bare --config, with or without --remove: main() goes on
\* to load_config, which creates a missing file and changes nothing else
MainNoConfig ==
    /\ call.op = ""
    /\ \E t \in CliTargets, cf \in {NoArg, "path"}, rm \in BOOLEAN :
          /\ file' = IF Exclusive(t) THEN file ELSE create_default_config(file)
          /\ ret' = IF Exclusive(t) THEN "usage" ELSE "chat"
          /\ call' = [NoCall EXCEPT !.op = "main", !.config = cf, !.remove = rm,
                                    !.given = t.given, !.index = t.index,
                                    !.provider = t.provider]
    /\ before' = Stored(file)
    /\ UNCHANGED <<env, loaded, client, progVars>>

\* the run of the program ends: only the file outlives it
ProgramExit ==
    /\ call.op # ""
    /\ call' = NoCall
    /\ before' = <<>>
    /\ ret' = ""
    /\ UNCHANGED <<file, env, loaded, client, progVars>>

\* the files the program starts from: missing, unreadable, the old format,
\* and lists of one to MaxProfiles profiles
ConfigFiles == LoadFiles \ {ListFile(<<>>)}

InitConfig ==
    /\ file \in ConfigFiles
    /\ env = NoEnv
    /\ call = NoCall
    /\ before = <<>>
    /\ ret = ""
    /\ loaded = NoLoad
    /\ client = NoClient
    /\ ProgIdle

NextConfig ==
    \/ AddConfigEntry
    \/ RemoveConfigEntry
    \/ MainRemoveConfig
    \/ MainAddConfig
    \/ MainNoConfig
    \/ ProgramExit

SpecConfig == InitConfig /\ [][NextConfig]_vars

----------------------------------------------------------------------------
(* The streaming loop of chat() as a fold over the lines it is given, when *)
(* nothing interrupts it.                                                  *)

RECURSIVE StreamRun(_, _, _)
StreamRun(b, i, acc) ==
    IF i > Len(b) THEN [acc EXCEPT !.end = "eof", !.read = i - 1]
    ELSE LET o == Classify(b[i]) IN
         CASE o.k = "skip" -> StreamRun(b, i + 1, acc)
           [] o.k = "done" -> [acc EXCEPT !.end = "done", !.read = i]
           [] o.k = "emit" ->
                StreamRun(b, i + 1, [acc EXCEPT !.collected = @ \o o.text,
                                                !.display = @ \o o.text])
           [] OTHER -> [acc EXCEPT !.end = "error", !.read = i,
                                   !.display = @ \o o.text]

StreamFold(b) ==
    StreamRun(b, 1, [collected |-> <<>>, display |-> <<>>, end |-> "", read |-> 0])

\* what NGPTClient.chat(stream=True) returns for the lines b
StreamResult(b) ==
    IF StreamFold(b).end = "error" THEN <<>> ELSE StreamFold(b).collected

----------------------------------------------------------------------------
(* Vocabulary of the claims, stated on the lines themselves *)

IsPrefix(s, t) == Len(s) <= Len(t) /\ SubSeq(t, 1, Len(s)) = s

Remove(s, i) == SubSeq(s, 1, i - 1) \o SubSeq(s, i + 1, Len(s))

IsText(line) == line.raw = "text"

IsDataLine(line) == IsText(line) /\ line.head = "data: "

IsDoneLine(line) == IsDataLine(line) /\ line.payload = "[DONE]"

IsBadJsonLine(line) ==
    IsDataLine(line) /\ line.payload # "[DONE]" /\ line.payload # "json"

IsIgnorable(line) == line.raw = "blank" \/ (IsText(line) /\ line.head # "data: ")

IsJsonFrame(line) == IsDataLine(line) /\ line.payload = "json"

\* the frame carries a delta with a string content
HasDeltaContent(line) ==
    /\ IsJsonFrame(line)
    /\ line.frame.chunk = "obj"
    /\ line.frame.choices = "list"
    /\ line.frame.first = "obj"
    /\ line.frame.delta = "obj"
    /\ line.frame.ctype = "str"

DeltaContent(line) == IF HasDeltaContent(line) THEN line.frame.ctext ELSE <<>>

\* a parsed frame with no choices, no delta, or an empty or absent content
IsContentless(line) ==
    /\ IsJsonFrame(line)
    /\ line.frame.chunk = "obj"
    /\ \/ line.frame.choices \in {"absent", "list0"}
       \/ /\ line.frame.choices = "list"
          /\ line.frame.first = "obj"
          /\ \/ line.frame.delta = "absent"
             \/ /\ line.frame.delta = "obj"
                /\ \/ line.frame.ctype = "absent"
                   \/ line.frame.ctype = "str" /\ line.frame.ctext = <<>>

FirstDone(b) ==
    IF \E i \in 1..Len(b) : IsDoneLine(b[i])
    THEN CHOOSE i \in 1..Len(b) :
            IsDoneLine(b[i]) /\ \A j \in 1..(i - 1) : ~IsDoneLine(b[j])
    ELSE Len(b) + 1

BeforeDone(b) == SubSeq(b, 1, FirstDone(b) - 1)

RECURSIVE ConcatContents(_)
ConcatContents(b) ==
    IF b = <<>> THEN <<>> ELSE DeltaContent(Head(b)) \o ConcatContents(Tail(b))

\* the streaming call of NGPTClient went through the loop and came back
\* without an interruption
StreamReturned ==
    /\ impl = "ngpt"
    /\ stream
    /\ pc = "returned"
    /\ how \in {"done", "eof", "error"}
    /\ TransportError(status) = ""

InLoop == stream /\ pc \in {"iter", "printed"}

Read == SubSeq(body, 1, pos)

----------------------------------------------------------------------------
(* Claims *)

\* C1: for every sequence of response lines, NGPTClient.chat(stream=True)
\* returns the concatenation, in arrival order, of the delta contents of the
\* frames before the first `data: [DONE]` line (or before the end of input).
C1_ResultIsConcatenation ==
    StreamReturned => result = ConcatContents(BeforeDone(body))

\* C2: once a line equal to `data: [DONE]` has been read, it is the last line
\* read: the call has returned what was collected before it, and no later
\* line was read or added to the result or to the display.
C2_DoneHalts ==
    \A i \in 1..pos :
        IsDoneLine(body[i]) =>
            /\ i = pos
            /\ pc = "returned"
            /\ how = "done"
            /\ result = collected
            /\ collected = StreamFold(SubSeq(body, 1, i - 1)).collected
            /\ display = StreamFold(SubSeq(body, 1, i - 1)).display

C2_Witness ==
    /\ pc = "returned"
    /\ how = "done"
    /\ body = <<FrameA, DoneLine, FrameB>>
    /\ result = <<"A">>

\* C3: a `data: ` line whose payload is not parseable JSON raises nothing and
\* changes nothing: the call never ends in an error at such a line, and the
\* result is the result for the input with that line removed.
C3_BadJsonSkipped ==
    /\ (impl = "ngpt" /\ stream /\ pos > 0 /\ IsBadJsonLine(body[pos]))
          => (how \notin {"error", "raised"} /\ pc # "printed")
    /\ StreamReturned =>
          \A i \in 1..Len(body) :
              IsBadJsonLine(body[i]) => result = StreamResult(Remove(body, i))

C3_Witness ==
    /\ StreamReturned
    /\ body = <<FrameA, BadJsonLine, FrameB>>
    /\ result = <<"A", "B">>

\* C4: the streaming decoder of NGPTClient.chat never fails: whatever the
\* lines are, no error outcome results and what was accumulated is returned.
C4_DecoderNeverFails ==
    (impl = "ngpt" /\ stream /\ pos > 0 /\ how # "broken") =>
        /\ how # "error"
        /\ exc = ""
        /\ (pc = "returned" => result = collected)

C6_ContentlessFrames ==
    /\ (impl = "ngpt" /\ stream /\ pos > 0 /\ IsContentless(body[pos])) =>
          /\ how \notin {"error", "raised"}
          /\ pc # "printed"
          /\ collected = StreamFold(SubSeq(body, 1, pos - 1)).collected
          /\ display = StreamFold(SubSeq(body, 1, pos - 1)).display
    /\ (StreamReturned /\ \A i \in 1..Len(body) : IsContentless(body[i])) =>
          /\ how # "error"
          /\ result = <<>>
          /\ display = <<>>

C6_Witness ==
    /\ StreamReturned
    /\ body = <<NoChoices, EmptyChoices, NoDelta>>
    /\ result = <<>>

\* C7: in non-streaming mode chat returns the message content of the first
\* choice of the response document, the empty string and no error when
\* `choices` is missing or empty, and echoes nothing.
C7_NonStreaming ==
    (~stream /\ pc \in {"returned", "raised"} /\ TransportError(status) = ""
       /\ apiKey /\ how # "interrupted" /\ exc # "KeyboardInterrupt") =>
        /\ display = <<>>
        /\ doc.kind = "content" =>
              (pc = "returned" /\ how = "value" /\ result = doc.text)
        /\ doc.kind \in {"nochoices", "emptychoices"} =>
              (pc = "returned" /\ how = "value" /\ result = <<>> /\ exc = "")

C7_Witness ==
    /\ ~stream
    /\ pc = "returned"
    /\ doc = ContentDoc(<<"X">>)
    /\ result = <<"X">>

\* C8: an interruption while lines are read makes NGPTClient.chat return
\* what was accumulated so far, a prefix of what the uninterrupted call
\* would have returned.
C8_InterruptReturnsPrefix ==
    (impl = "ngpt" /\ stream /\ pc = "returned" /\ how = "interrupted") =>
        /\ result = collected
        /\ IsPrefix(result, StreamResult(body))

\* C9: when the transport reports 401, 404, 429 or a connection failure,
\* NGPTClient.chat returns the empty string, no exception escapes, and
\* exactly one request was issued; no call issues a second request.
C9_TransportErrors ==
    /\ requests <= 1
    /\ (impl = "ngpt" /\ status \in {"401", "404", "429", "conn"}
          /\ pc \notin {"call", "post"} /\ how # "interrupted"
          /\ exc # "KeyboardInterrupt") =>
          /\ pc = "returned"
          /\ result = <<>>
          /\ requests = 1
          /\ exc = TransportError(status)
    /\ (impl = "ngpt" /\ how = "broken") =>
          /\ pc = "returned"
          /\ result = <<>>
          /\ requests = 1

C9_Witness ==
    /\ impl = "ngpt"
    /\ status = "429"
    /\ pc = "returned"
    /\ how = "error"
    /\ requests = 1

\* the keys the request body is specified to have
RequestKeys ==
    {"model", "messages", "stream", "temperature", "top_p"}
      \cup (IF maxTokens # "None" THEN {"max_tokens"} ELSE {})
      \cup (IF webSearch THEN {"web_search"} ELSE {})

\* C10: every request body the ngpt program sends to chat/completions has
\* exactly the keys model, messages, stream, temperature and top_p, plus
\* max_tokens iff a token count was given and web_search iff web search is
\* enabled, and no extra argument replaced one of them.
C10_RequestKeys ==
    (mode \in Modes /\ requests > 0) =>
        /\ payload = RequestKeys
        /\ overwritten = {}


----------------------------------------------------------------------------
(* Claims about the configuration                                          *)

\* load_config returned a profile
Loaded == call.op = "load_config" /\ ret = "returned"

\* C11: whatever the config file holds and whatever index or provider is
\* asked for, the profile load_config returns has api_key, base_url and
\* model equal to OPENAI_API_KEY, OPENAI_BASE_URL and OPENAI_MODEL whenever
\* that variable is set to a non-empty value.
C11_EnvOverridesProfile ==
    Loaded =>
        /\ EnvSet(env, "OPENAI_API_KEY") => loaded.config.api_key = env.OPENAI_API_KEY
        /\ EnvSet(env, "OPENAI_BASE_URL") => loaded.config.base_url = env.OPENAI_BASE_URL
        /\ EnvSet(env, "OPENAI_MODEL") => loaded.config.model = env.OPENAI_MODEL

\* the profile load_config selected, as stored; the default entry stands in
\* when the list was empty
SelectedProfile ==
    IF loaded.index >= 0 THEN before[loaded.index + 1] ELSE DEFAULT_CONFIG_ENTRY

\* command line over environment over file, for one field
Resolved(flag, v, stored) ==
    IF Given(flag) THEN flag ELSE IF EnvSet(env, v) THEN env[v] ELSE stored

\* C12: the client main() constructs uses, for each of api_key, base_url
\* and model on its own, the value of the command-line flag when given,
\* otherwise the non-empty environment variable, otherwise the value stored
\* in the selected profile (base_url with its trailing slash).
C12_FlagOverEnvOverFile ==
    (call.op = "main" /\ ret = "client") =>
        /\ client.api_key =
              Resolved(call.api_key, "OPENAI_API_KEY", SelectedProfile.api_key)
        /\ client.base_url =
              AddSlash(Resolved(call.base_url, "OPENAI_BASE_URL", SelectedProfile.base_url))
        /\ client.model =
              Resolved(call.model, "OPENAI_MODEL", SelectedProfile.model)

\* load_config returned profile k of the stored list, environment applied
Selects(k) ==
    /\ loaded.index = k
    /\ k < Len(before)
    /\ loaded.config = ApplyEnv(before[k + 1], env)

\* C20: with a provider name given load_config selects the unique profile
\* whose provider equals it ignoring case, whatever config_index is, or
\* profile 0 when no profile matches; without a provider it selects the
\* profile at config_index when that is in range and profile 0 otherwise.
C20_Selection ==
    Loaded =>
        LET matching == MatchingConfigs(before, call.provider)
        IN  IF Given(call.provider)
            THEN /\ Len(matching) = 1 => Selects(matching[1])
                 /\ Len(matching) = 0 => Selects(0)
            ELSE IF call.index >= 0 /\ call.index < Len(before)
                 THEN Selects(call.index)
                 ELSE Selects(0)

\* a call of remove_config_entry returned
Removing == call.op = "remove_config_entry"

\* the index is one of the stored list the operation found
InRange(i) == i >= 0 /\ i < Len(before)

\* C16 as stated: remove_config_entry(path, i) returns False and leaves the
\* stored list unchanged when i < 0 or i >= the number of stored profiles;
\* otherwise it returns True and the stored list is the previous one with
\* exactly the i-th profile removed, order kept.
C16_RemoveByIndex ==
    Removing =>
        IF InRange(call.index)
        THEN ret = "True" /\ Stored(file) = Remove(before, call.index + 1)
        ELSE ret = "False" /\ Stored(file) = before

\* C16, amended: remove_config_entry(path, i) returns False and leaves the
\* stored list unchanged when i is out of range; for i in range it returns
\* True exactly when the shortened list could be saved, and the stored list
\* is then the previous one without its i-th profile, order kept; when the
\* file cannot be written it returns False.
C16_RemoveByIndexSaved ==
    Removing =>
        /\ ~InRange(call.index) => ret = "False" /\ Stored(file) = before
        /\ InRange(call.index) /\ call.writable =>
              ret = "True" /\ Stored(file) = Remove(before, call.index + 1)
        /\ InRange(call.index) /\ ~call.writable => ret = "False"

\* the middle profile of three was removed
C16_Witness ==
    /\ Removing
    /\ ret = "True"
    /\ Len(before) = 3
    /\ call.index = 1
    /\ Stored(file) = <<before[1], before[3]>>

\* a call of add_config_entry that was not cancelled at a prompt
Adding == call.op = "add_config_entry" /\ ret # "cancelled"

Distinct(configs) ==
    \A i, j \in 1..Len(configs) :
        i # j => Lower(configs[i].provider) # Lower(configs[j].provider)

\* C18: an operation that finds the provider names pairwise distinct
\* ignoring case leaves them pairwise distinct, so they stay distinct
\* through any sequence of add_config_entry and remove_config_entry.
C18_ProvidersStayDistinct ==
    (call.op # "" /\ Distinct(before)) => Distinct(Stored(file))

\* a profile was appended to a non-empty list of distinct providers
C18_Witness ==
    /\ call.op = "add_config_entry"
    /\ ret = "saved"
    /\ Distinct(before)
    /\ Len(before) = 2
    /\ Len(Stored(file)) = 3
    /\ Distinct(Stored(file))

\* C19: load_configs always returns at least one profile, for any config
\* file and after any sequence of add and remove operations.
C19_AtLeastOneProfile == Len(load_configs(file)) >= 1

\* the index a run of `ngpt --config --remove` aims at: the one given with
\* --config-index, or the profile matching --provider, the one chosen when
\* several match; -1 when there is none
RemovalTarget ==
    LET matching == MatchingConfigs(before, call.provider)
    IN  IF Given(call.provider)
        THEN IF Len(matching) = 1 THEN matching[1]
             ELSE IF Len(matching) > 1 /\ IsChoice(call.choice, Len(matching))
                  THEN matching[DigitValue(call.choice) + 1]
             ELSE 0 - 1
        ELSE IF call.given THEN call.index ELSE 0 - 1

\* everything C15 asks of a run that removes a profile
RemovalAllowed ==
    /\ call.config = "bare"
    /\ call.remove
    /\ call.given \/ Given(call.provider)
    /\ InRange(RemovalTarget)
    /\ Lower(call.answer) \in {"y", "yes"}

----------------------------------------------------------------------------
(* Claims about shell mode and code mode                                   *)

\* C13: in shell mode of ngpt and of tOAI the generated command is handed
\* to subprocess.run only after the user answered y or yes, in any case, at
\* the confirmation prompt; with another answer, with an empty generated
\* command or with an interrupt at the prompt nothing is executed.
C13_ShellNeedsYes ==
    /\ executed => (mode = "shell" /\ result # <<>> /\ Lower(answer) \in {"y", "yes"})
    /\ (cpc = "exited" /\ result = <<>>) => ~executed
    /\ (cpc = "exited" /\ Lower(answer) \notin {"y", "yes"}) => ~executed

\* tOAI ran the generated command after the answer YES
C13_Witness ==
    /\ impl = "tOAI"
    /\ cpc = "exited"
    /\ result # <<>>
    /\ answer = "YES"
    /\ executed

\* C14: in code mode with a non-empty API key main() calls generate_code
\* with arguments it accepts, non-empty content the API returns is shown
\* (rendered with --prettify, printed otherwise), and the run does not end
\* in the `Error:` exit-status-1 path.
C14_CodeModeShowsCode ==
    (mode = "code" /\ apiKey /\ cpc = "exited") =>
        /\ exitCode # 1
        /\ \A i \in 1..Len(messages) : messages[i] # "main-error"
        /\ (status = "ok" /\ DocResult(doc).k = "value" /\ DocResult(doc).text # <<>>) =>
              shown = (IF prettify THEN "pretty" ELSE "plain")

----------------------------------------------------------------------------
(* The returned string against the text echoed to the display.             *)

\* chat(stream=True) of NGPTClient has returned
StreamCallReturned == impl = "ngpt" /\ stream /\ pc = "returned"

\* C21 as stated: whenever NGPTClient.chat(stream=True) returns, on any exit
\* path (sentinel, end of input, user interruption, or an error raised while
\* lines are being read), the returned string equals the concatenation of
\* the fragments echoed to the display during the call.
C21_ResultIsDisplay == StreamCallReturned => result = display

\* C21 amended: after the sentinel or the end of input the returned string
\* equals the echoed text; after an interruption the echoed text is the
\* returned string followed by the fragment that was printed but not yet
\* appended (none when the interrupt falls between two lines); after an
\* error the returned string is empty whatever was echoed.
C21_ResultVersusDisplay ==
    StreamCallReturned =>
        /\ how \in {"done", "eof"} => result = display
        /\ how = "interrupted" => display = result \o pending
        /\ how \in {"error", "broken", "nokey"} => result = <<>>

\* an interruption between print(content) and collected_content += content,
\* after an earlier fragment was appended
C21_Witness ==
    /\ StreamCallReturned
    /\ how = "interrupted"
    /\ result # <<>>
    /\ pending # <<>>
    /\ display = result \o pending

====
